---- MODULE Spec2Model ----
(***************************************************************************)
(* A model of src/program_slicing/slice.py: the construction of a control  *)
(* flow graph from a Python AST (PyCFG, gen_cfg) and the backward slicer   *)
(* (collect_references, build_slice, slice).                               *)
(*                                                                         *)
(* Python objects are modelled by value except for list objects, which the *)
(* code shares between nodes (self.parents = parents keeps the caller's    *)
(* list): every list is a cell of the heap `lists`, and a node's parents   *)
(* field holds the index of its cell.                                      *)
(***************************************************************************)
EXTENDS Integers, Sequences, FiniteSets, TLC

VARIABLES
    tree,          \* the parsed program (ast.parse(code)), a Module
    builds,        \* number of gen_cfg calls made
    REGISTRY_IDX,  \* slice.py:26
    REGISTRY,      \* slice.py:28, rid -> CFGNode
    lists,         \* heap of Python list objects (parents lists, frontiers, stacks)
    nodes,         \* slice.py:451, the mapping returned by gen_cfg (its keys, in order)
    pc,            \* where the script is
    linenum,       \* the line argument of the running / last slice call
    varname,       \* the variable argument (a string: a sequence of characters)
    frames,        \* activation records of build_slice, innermost last
    printed,       \* what print_lines_in_slice has written, <<>> if nothing yet
    error,         \* the exception that ended the script, "" if none
    calls,         \* number of slice calls made
    before,        \* the registry as it was when the running / last slice call began
    ref_node,      \* the argument of a direct call of collect_references
    ref_result     \* what that call gave back

vars == <<tree, builds, REGISTRY_IDX, REGISTRY, lists, nodes, pc, linenum, varname,
          frames, printed, error, calls, before, ref_node, ref_result>>

(***************************************************************************)
(* Generic helpers                                                         *)
(***************************************************************************)
Range(s) == {s[i] : i \in 1..Len(s)}

RECURSIVE sorted_list(_)
\* list.sort() on a list of distinct integers
sorted_list(S) ==
    IF S = {} THEN <<>>
    ELSE LET m == CHOOSE x \in S : \A y \in S : x <= y
         IN  <<m>> \o sorted_list(S \ {m})

\* what a Python call gives back: a list, None, or a raised exception
List(val) == [kind |-> "list", val |-> val]
None == [kind |-> "None"]
Raise(exc) == [kind |-> "raise", exc |-> exc]

(***************************************************************************)
(* The AST (what ast.parse produces for the supported subset)              *)
(***************************************************************************)
Name(id) == [kind |-> "Name", id |-> id]
Constant == [kind |-> "Constant"]
BinOp(l, r) == [kind |-> "BinOp", left |-> l, right |-> r]
Compare(l, r) == [kind |-> "Compare", left |-> l, comparators |-> <<r>>]
UnaryOp(o) == [kind |-> "UnaryOp", operand |-> o]

Assign(targets, value, line) ==
    [kind |-> "Assign", targets |-> targets, value |-> value, lineno |-> line]
Expr(value, line) == [kind |-> "Expr", value |-> value, lineno |-> line]
If(test, body, orelse, line) ==
    [kind |-> "If", test |-> test, body |-> body, orelse |-> orelse, lineno |-> line]
While(test, body, line) ==
    [kind |-> "While", test |-> test, body |-> body, lineno |-> line]
Module(body) == [kind |-> "Module", body |-> body]
\* ast.parse("_if: <test>").body[0] after ast.copy_location(_, node.test)
AnnAssign(target, annotation, line) ==
    [kind |-> "AnnAssign", target |-> target, annotation |-> annotation, lineno |-> line]

(***************************************************************************)
(* Node registry and CFG nodes                                             *)
(***************************************************************************)
\* a reset_registry that leaves the globals as they are
reset_registry_kept ==
    [REGISTRY_IDX |-> REGISTRY_IDX, REGISTRY |-> REGISTRY, lists |-> lists, err |-> ""]

\* reset_registry
reset_registry == [REGISTRY_IDX |-> 0, REGISTRY |-> <<>>, lists |-> <<>>, err |-> ""]

\* a fresh list object holding `contents`; its identity is its index in the heap
NewList(h, contents) == [h EXCEPT !.lists = Append(@, contents)]
LastList(h) == Len(h.lists)

\* CFGNode.lineno
lineno(node) == node.ast_node.lineno

\* CFGNode.add_child applied to children list `ch`
add_child(ch, c) == IF c \in Range(ch) THEN ch ELSE Append(ch, c)

\* CFGNode.__init__ (with register_node / get_registry_idx): the node gets the
\* next rid, keeps the caller's list object as its parents, and is appended to
\* the children of every node of that list
CFGNode(h, parents, ast) ==
    LET rid == h.REGISTRY_IDX
        self == [rid |-> rid, parents |-> parents, ast_node |-> ast,
                 children |-> <<>>, relevant_set |-> {}, control_set |-> {}]
        ps == Range(h.lists[parents])
    IN  [h EXCEPT
           !.REGISTRY_IDX = rid + 1,
           !.REGISTRY = [r \in 0..rid |->
                           IF r = rid THEN self
                           ELSE IF r \in ps
                                THEN [h.REGISTRY[r] EXCEPT !.children = add_child(@, rid)]
                                ELSE h.REGISTRY[r]]]

\* CFGNode.add_parent / add_parents: appends to the list object the node holds
RECURSIVE add_parents(_, _, _)
add_parents(h, rid, ps) ==
    IF ps = <<>> THEN h
    ELSE LET cell == h.REGISTRY[rid].parents
             h1 == IF Head(ps) \in Range(h.lists[cell]) THEN h
                   ELSE [h EXCEPT !.lists[cell] = Append(@, Head(ps))]
         IN  add_parents(h1, rid, Tail(ps))

\* CFGNode.update_control_set for every node of a frontier (slice.py:222-223)
update_control_set(h, frontier, pred) ==
    [h EXCEPT !.REGISTRY = [r \in DOMAIN h.REGISTRY |->
        IF r \in Range(frontier)
        THEN [h.REGISTRY[r] EXCEPT !.control_set = @ \cup {pred}]
        ELSE h.REGISTRY[r]]]

(***************************************************************************)
(* The CFG builder.  A walk takes the registry/heap state h and the        *)
(* frontier list p (a heap index) and returns the new state and frontier.  *)
(***************************************************************************)
RECURSIVE walk_expr(_, _)
\* PyCFG.walk on an expression: on_binop, on_compare, on_unaryop, and the
\* pass-through for kinds without a handler (Name, Constant)
walk_expr(node, myparents) ==
    CASE node.kind = "BinOp" -> walk_expr(node.right, walk_expr(node.left, myparents))
      [] node.kind = "Compare" ->
            walk_expr(node.comparators[1], walk_expr(node.left, myparents))
      [] node.kind = "UnaryOp" -> walk_expr(node.operand, myparents)
      [] OTHER -> myparents

RECURSIVE walk(_, _, _)
RECURSIVE body_loop(_, _, _)
RECURSIVE branch_loop(_, _, _, _)

\* `for n in node.body: p = self.walk(n, p)` of on_module and on_while
body_loop(h, body, p) ==
    IF body = <<>> \/ h.err # "" THEN [h |-> h, p |-> p]
    ELSE LET r == walk(h, Head(body), p)
         IN  body_loop(r.h, Tail(body), r.p)

\* the loops of on_if: after each statement every node of the frontier it
\* returned gets the test's line in its control_set
branch_loop(h, body, p, testline) ==
    IF body = <<>> \/ h.err # "" THEN [h |-> h, p |-> p]
    ELSE LET r == walk(h, Head(body), p)
             h1 == IF r.h.err # "" THEN r.h
                   ELSE update_control_set(r.h, r.h.lists[r.p], testline)
         IN  branch_loop(h1, Tail(body), r.p, testline)

\* an on_assign that creates the node before it looks at the targets
on_assign_late(h, node, myparents) ==
    LET h1 == CFGNode(h, myparents, node)
        h2 == NewList(h1, <<h.REGISTRY_IDX>>)
    IN  IF Len(node.targets) > 1
        THEN [h |-> [h2 EXCEPT !.err = "TypeError"], p |-> myparents]
        ELSE [h |-> h2, p |-> walk_expr(node.value, LastList(h2))]

\* PyCFG.on_assign
on_assign(h, node, myparents) ==
    IF Len(node.targets) > 1
    THEN [h |-> [h EXCEPT !.err = "TypeError"], p |-> myparents]
    ELSE LET h1 == CFGNode(h, myparents, node)
             h2 == NewList(h1, <<h.REGISTRY_IDX>>)
         IN  [h |-> h2, p |-> walk_expr(node.value, LastList(h2))]

\* PyCFG.on_expr
on_expr(h, node, myparents) ==
    LET h1 == CFGNode(h, myparents, node)
        h2 == NewList(h1, <<h.REGISTRY_IDX>>)
    IN  [h |-> h2, p |-> walk_expr(node.value, LastList(h2))]

\* the frontier a while statement returns (slice.py:199)
while_exit(test_node) == test_node

\* PyCFG.on_while
on_while(h, node, myparents) ==
    LET test_node0 == h.REGISTRY_IDX
        h1 == CFGNode(h, myparents, AnnAssign("_while", node.test, node.lineno))
        h2 == NewList(h1, <<test_node0>>)
        test_node == walk_expr(node.test, LastList(h2))
        r == body_loop(h2, node.body, test_node)
    IN  IF r.h.err # "" THEN r
        ELSE [h |-> add_parents(r.h, test_node0, r.h.lists[r.p]),
              p |-> while_exit(test_node)]

\* PyCFG.on_if
on_if(h, node, myparents) ==
    LET test_node0 == h.REGISTRY_IDX
        h1 == CFGNode(h, myparents, AnnAssign("_if", node.test, node.lineno))
        h2 == NewList(h1, <<test_node0>>)
        test_node == walk_expr(node.test, LastList(h2))
        r1 == branch_loop(h2, node.body, test_node, node.lineno)
        r2 == branch_loop(r1.h, node.orelse, test_node, node.lineno)
    IN  IF r2.h.err # "" THEN r2
        ELSE LET h3 == NewList(r2.h, r2.h.lists[r1.p] \o r2.h.lists[r2.p])
             IN  [h |-> h3, p |-> LastList(h3)]

\* PyCFG.walk on a statement: dispatch on the class name
walk(h, node, myparents) ==
    CASE node.kind = "Assign" -> on_assign(h, node, myparents)
      [] node.kind = "Expr" -> on_expr(h, node, myparents)
      [] node.kind = "While" -> on_while(h, node, myparents)
      [] node.kind = "If" -> on_if(h, node, myparents)
      [] OTHER -> [h |-> h, p |-> myparents]

\* a builder without the final pass
update_children_skipped(h) == h

\* PyCFG.update_children: the final pass over the registry
update_children(h) ==
    LET kids(p) == {c \in DOMAIN h.REGISTRY : p \in Range(h.lists[h.REGISTRY[c].parents])}
        RECURSIVE addAll(_, _, _)
        addAll(ch, p, c) ==
            IF c >= h.REGISTRY_IDX THEN ch
            ELSE addAll(IF c \in kids(p) THEN add_child(ch, c) ELSE ch, p, c + 1)
    IN  [h EXCEPT !.REGISTRY = [p \in DOMAIN h.REGISTRY |->
            [h.REGISTRY[p] EXCEPT !.children = addAll(@, p, 0)]]]

\* gen_cfg (slice.py:268) with PyCFG.__init__ and PyCFG.gen_cfg
gen_cfg(src) ==
    LET h0 == NewList(reset_registry, <<>>)
        h1 == CFGNode(h0, LastList(h0), Expr(Name("start"), 0))
        h2 == NewList(h1, <<0>>)
        r == body_loop(h2, src.body, LastList(h2))
    IN  IF r.h.err # "" THEN r.h
        ELSE update_children(CFGNode(r.h, r.p, Expr(Name("stop"), 0)))

(***************************************************************************)
(* Programs.  Generated programs have at most MaxStmts statements, one per *)
(* line, numbered in source order; the scenario programs carry the line    *)
(* numbers their text gives them.                                          *)
(***************************************************************************)
MaxStmts == 3

GenVars == {"a", "b"}

\* right-hand sides and conditions of generated programs
GenValues == {BinOp(Name("a"), Name("b")), UnaryOp(Name("a"))}
GenTests == {Name("a"), Compare(Name("b"), Constant)}

\* simple statements: single-target assignments, one parallel assignment, one
\* expression statement
GenSimple ==
    {Assign(<<"b">>, v, 0) : v \in GenValues}
        \cup {Assign(<<"a">>, Constant, 0), Assign(<<"a", "b">>, Constant, 0),
              Expr(Name("a"), 0)}

RECURSIVE GenBodies(_)
RECURSIVE GenStmts(_)
\* all statement sequences made of exactly n statements (nested ones counted)
GenBodies(n) ==
    IF n = 0 THEN {<<>>}
    ELSE UNION {{<<s>> \o rest : s \in GenStmts(k), rest \in GenBodies(n - k)} : k \in 1..n}
\* all single statements made of exactly k statements
GenStmts(k) ==
    IF k = 1 THEN GenSimple
    ELSE {While(t, b, 0) : t \in GenTests, b \in GenBodies(k - 1)}
            \cup UNION {{If(t, b, e, 0) : t \in GenTests, b \in GenBodies(j),
                                          e \in GenBodies(k - 1 - j)} : j \in 1..(k - 1)}

RECURSIVE number_body(_, _)
\* gives every statement its line: a statement takes `next`, its body the
\* following lines, its else branch the lines after the body
number_body(body, next) ==
    IF body = <<>> THEN [body |-> <<>>, next |-> next]
    ELSE LET s == Head(body)
             s1 == CASE s.kind = "While" ->
                           LET b == number_body(s.body, next + 1)
                           IN  [s |-> While(s.test, b.body, next), next |-> b.next]
                     [] s.kind = "If" ->
                           LET b == number_body(s.body, next + 1)
                               e == number_body(s.orelse, b.next)
                           IN  [s |-> If(s.test, b.body, e.body, next), next |-> e.next]
                     [] OTHER -> [s |-> [s EXCEPT !.lineno = next], next |-> next + 1]
             rest == number_body(Tail(body), s1.next)
         IN  [body |-> <<s1.s>> \o rest.body, next |-> rest.next]

GenPrograms ==
    {Module(number_body(b, 1).body) : b \in UNION {GenBodies(n) : n \in 1..MaxStmts}}

\* Scenario A: a = 1; b = 2; c = a + b; d = c
ScenarioA ==
    Module(<<Assign(<<"a">>, Constant, 1), Assign(<<"b">>, Constant, 2),
             Assign(<<"c">>, BinOp(Name("a"), Name("b")), 3),
             Assign(<<"d">>, Name("c"), 4)>>)
\* Scenario B: a = 1; b = 2; c = a
ScenarioB ==
    Module(<<Assign(<<"a">>, Constant, 1), Assign(<<"b">>, Constant, 2),
             Assign(<<"c">>, Name("a"), 3)>>)
\* Scenario C: x = 1; if x > 0: y = 2 else: y = 3; z = y
ScenarioC ==
    Module(<<Assign(<<"x">>, Constant, 1),
             If(Compare(Name("x"), Constant), <<Assign(<<"y">>, Constant, 3)>>,
                <<Assign(<<"y">>, Constant, 4)>>, 2),
             Assign(<<"z">>, Name("y"), 5)>>)
\* Scenario D: i = 0; while i < 3: i = i + 1   (test and body on line 2)
ScenarioD ==
    Module(<<Assign(<<"i">>, Constant, 1),
             While(Compare(Name("i"), Constant),
                   <<Assign(<<"i">>, BinOp(Name("i"), Constant), 2)>>, 2)>>)
\* if c: v = 1 else: (if d: w = 2); z = v   -- branches without shared variables
ScenarioE ==
    Module(<<If(Name("c"), <<Assign(<<"v">>, Constant, 2)>>,
                <<If(Name("d"), <<Assign(<<"w">>, Constant, 4)>>, <<>>, 3)>>, 1),
             Assign(<<"z">>, Name("v"), 5)>>)

\* xy = 1; x = 2; z = xy   -- a name of two characters
ScenarioF ==
    Module(<<Assign(<<"xy">>, Constant, 1), Assign(<<"x">>, Constant, 2),
             Assign(<<"z">>, Name("xy"), 3)>>)
\* if c: (while d: x = 1) else: y = 2
ScenarioG ==
    Module(<<If(Name("c"),
                <<While(Name("d"), <<Assign(<<"x">>, Constant, 3)>>, 2)>>,
                <<Assign(<<"y">>, Constant, 5)>>, 1)>>)

Scenarios == {ScenarioA, ScenarioB, ScenarioC, ScenarioD, ScenarioE, ScenarioF, ScenarioG}

Programs == GenPrograms \cup Scenarios

\* the variable names and line numbers a query about `t` is drawn from
RECURSIVE NamesOfExpr(_)
NamesOfExpr(e) ==
    CASE e.kind = "Name" -> {e.id}
      [] e.kind = "BinOp" -> NamesOfExpr(e.left) \cup NamesOfExpr(e.right)
      [] e.kind = "Compare" -> NamesOfExpr(e.left) \cup NamesOfExpr(e.comparators[1])
      [] e.kind = "UnaryOp" -> NamesOfExpr(e.operand)
      [] OTHER -> {}
RECURSIVE NamesOfBody(_)
NamesOfBody(body) ==
    IF body = <<>> THEN {}
    ELSE LET s == Head(body)
         IN  NamesOfBody(Tail(body)) \cup
             (CASE s.kind = "Assign" -> Range(s.targets) \cup NamesOfExpr(s.value)
                [] s.kind = "Expr" -> NamesOfExpr(s.value)
                [] s.kind = "While" -> NamesOfExpr(s.test) \cup NamesOfBody(s.body)
                [] s.kind = "If" -> NamesOfExpr(s.test) \cup NamesOfBody(s.body)
                                        \cup NamesOfBody(s.orelse))
RECURSIVE LinesOfBody(_)
LinesOfBody(body) ==
    IF body = <<>> THEN {}
    ELSE LET s == Head(body)
         IN  {s.lineno} \cup LinesOfBody(Tail(body)) \cup
             (CASE s.kind = "While" -> LinesOfBody(s.body)
                [] s.kind = "If" -> LinesOfBody(s.body) \cup LinesOfBody(s.orelse)
                [] OTHER -> {})
RECURSIVE Preorder(_)
\* the statements in the order the builder walks them
Preorder(body) ==
    IF body = <<>> THEN <<>>
    ELSE LET s == Head(body)
         IN  <<s>> \o (CASE s.kind = "While" -> Preorder(s.body)
                         [] s.kind = "If" -> Preorder(s.body) \o Preorder(s.orelse)
                         [] OTHER -> <<>>) \o Preorder(Tail(body))
MaxOf(S) == CHOOSE x \in S : \A y \in S : y <= x
\* every line of the program, line 0 (start/stop) and one line past the end
QueryLines(t) == 0..(MaxOf(LinesOfBody(t.body)) + 1)
\* a name as the string the caller passes, a sequence of characters; every
\* name of the programs but xy is one character long
Chars(id) == IF id = "xy" THEN <<"x", "y">> ELSE <<id>>
QueryVars(t) == {Chars(x) : x \in NamesOfBody(t.body)}

(***************************************************************************)
(* The script: gen_cfg, then slice                                         *)
(***************************************************************************)
Init ==
    /\ tree \in Programs
    /\ builds = 0
    /\ REGISTRY_IDX = 0
    /\ REGISTRY = <<>>
    /\ lists = <<>>
    /\ nodes = <<>>
    /\ pc = "start"
    /\ linenum = 0
    /\ varname = <<>>
    /\ frames = <<>>
    /\ printed = <<>>
    /\ error = ""
    /\ calls = 0
    /\ before = <<>>
    /\ ref_node = None
    /\ ref_result = None

\* nodes = gen_cfg(src): the globals and the mapping after the call
Build(src) ==
    LET h == gen_cfg(src)
    IN  /\ builds' = builds + 1
        /\ REGISTRY_IDX' = h.REGISTRY_IDX
        /\ REGISTRY' = h.REGISTRY
        /\ lists' = h.lists
        /\ IF h.err # ""
           THEN pc' = "raised" /\ error' = h.err /\ nodes' = <<>>
           ELSE pc' = "built" /\ error' = ""
                /\ nodes' = [i \in 1..h.REGISTRY_IDX |-> i - 1]
        /\ UNCHANGED <<linenum, varname, frames, printed, calls, before, ref_node, ref_result>>

\* nodes = gen_cfg(code)   (slice.py:451)
GenCfg ==
    /\ pc = "start"
    /\ Build(tree)
    /\ UNCHANGED tree

\* gen_cfg called again, on another program ("in case you're generating
\* multiple CFGs", slice.py:269)
MaxBuilds == 2
GenCfgAgain ==
    /\ pc \in {"built", "raised"}
    /\ calls = 0
    /\ builds < MaxBuilds
    /\ \E src \in {ScenarioD, ScenarioG} :
          /\ tree' = src
          /\ Build(src)

(***************************************************************************)
(* The reference collector                                                 *)
(***************************************************************************)
RECURSIVE collect_references(_)
\* collect_references (slice.py:361): a kind without a branch falls off the
\* end of the function, which returns None; list + None raises TypeError
collect_references(ast_node) ==
    CASE ast_node.kind = "Name" -> List(<<ast_node.id>>)
      [] ast_node.kind = "Constant" -> List(<<>>)
      [] ast_node.kind = "BinOp" ->
            LET l == collect_references(ast_node.left)
                r == collect_references(ast_node.right)
            IN  IF l.kind = "raise" THEN l
                ELSE IF r.kind = "raise" THEN r
                ELSE IF l.kind = "None" \/ r.kind = "None" THEN Raise("TypeError")
                ELSE List(l.val \o r.val)
      [] ast_node.kind = "Assign" -> collect_references(ast_node.value)
      [] ast_node.kind = "AnnAssign" -> collect_references(ast_node.annotation)
      [] ast_node.kind = "If" -> collect_references(ast_node.test)
      [] OTHER -> None

\* set(collect_references(ast_node)): set(None) raises TypeError
set_of(refs) == IF refs.kind = "list" THEN [kind |-> "set", val |-> Range(refs.val)]
                ELSE Raise("TypeError")

(***************************************************************************)
(* The backward slicer.  build_slice runs in steps: one per pop of the     *)
(* stack and one per parent examined; a recursive call pushes a frame.     *)
(***************************************************************************)
\* memory for the to-visit stack and depth of the Python call stack
MaxStack == 6
MaxDepth == 4
MaxCalls == 2

\* def(m), slice.py:395-401
def_m(parent) ==
    IF parent.ast_node.kind = "Assign" THEN Range(parent.ast_node.targets) ELSE {}

\* CFGNode.update_relevant_set
update_relevant_set(reg, rid, relevant_set) ==
    [reg EXCEPT ![rid].relevant_set = relevant_set]

\* the seed's parents list taken as the stack
stack_cell_aliased(reg, ls, start_loc) == reg[start_loc].parents

\* the list object build_slice uses as its stack (slice.py:387): a new list
\* holding start_loc
stack_cell(reg, ls, start_loc) == Len(ls) + 1

\* the relevant set the seed node starts with (slice.py:384)
seed_relevant_set(reg, node, vs) == vs

\* a build_slice whose result starts with the line of its start node
enter_with_own_line(reg, ls, node, vs) ==
    LET cell == stack_cell(reg, ls, node)
    IN  [reg |-> update_relevant_set(reg, node, seed_relevant_set(reg, node, vs)),
         lists |-> IF cell > Len(ls) THEN Append(ls, <<node>>)
                   ELSE [ls EXCEPT ![cell] = Append(@, node)],
         frame |-> [start |-> node, lines_in_slice |-> {lineno(reg[node])}, stack |-> cell,
                    current_loc |-> node, idx |-> 0, relevant_m |-> {}]]

\* slice.py:380-387: a new activation of build_slice(node, vars)
enter(reg, ls, node, vs) ==
    LET cell == stack_cell(reg, ls, node)
    IN  [reg |-> update_relevant_set(reg, node, seed_relevant_set(reg, node, vs)),
         lists |-> IF cell > Len(ls) THEN Append(ls, <<node>>)
                   ELSE [ls EXCEPT ![cell] = Append(@, node)],
         frame |-> [start |-> node, lines_in_slice |-> {}, stack |-> cell,
                    current_loc |-> node, idx |-> 0, relevant_m |-> {}]]

\* a search that falls back to the first node when no line matches
start_loc_default(reg, keys, line) ==
    LET hits == {i \in 1..Len(keys) : lineno(reg[keys[i]]) = line}
    IN  [kind |-> "node", rid |-> keys[IF hits = {} THEN 1 ELSE MaxOf(hits)]]

\* the node slice starts from (slice.py:437-441): the loop keeps the last match
start_loc(reg, keys, line) ==
    LET hits == {i \in 1..Len(keys) : lineno(reg[keys[i]]) = line}
    IN  IF hits = {} THEN None
        ELSE [kind |-> "node", rid |-> keys[MaxOf(hits)]]

\* set(varname): the characters of the string
set_of_str(str) == Range(str)

\* the exception leaves build_slice and slice: frames and their stacks are gone
Unwind(exc) ==
    /\ pc' = "raised"
    /\ error' = exc
    /\ frames' = <<>>
    /\ printed' = printed

\* the heap without the stacks of the running frames
GraphLists(ls) == IF frames = <<>> THEN ls ELSE SubSeq(ls, 1, frames[1].stack - 1)

\* slice(nodes, linenum, varname), up to the entry of build_slice
SliceCall(line, var) ==
    /\ linenum' = line
    /\ varname' = var
    /\ calls' = calls + 1
    /\ before' = REGISTRY
    /\ LET s == start_loc(REGISTRY, nodes, line)
       IN  IF s.kind = "None"
           THEN /\ Unwind("TypeError")
                /\ UNCHANGED <<REGISTRY, lists>>
           ELSE LET e == enter(REGISTRY, lists, s.rid, set_of_str(var))
                IN  /\ REGISTRY' = e.reg
                    /\ lists' = e.lists
                    /\ frames' = <<e.frame>>
                    /\ pc' = "slicing"
                    /\ UNCHANGED <<printed, error>>
    /\ UNCHANGED <<tree, builds, REGISTRY_IDX, nodes, ref_node, ref_result>>

\* slice(nodes, linenum, varname)   (slice.py:452)
Slice ==
    /\ pc = "built"
    /\ \E line \in QueryLines(tree), var \in QueryVars(tree) : SliceCall(line, var)

\* the caller asks the same question again of the same CFG
SliceAgain ==
    /\ pc = "returned"
    /\ calls < MaxCalls
    /\ SliceCall(linenum, varname)

Top == frames[Len(frames)]
SetTop(f) == [frames EXCEPT ![Len(frames)] = f]

\* the index of the next parent of the for loop, 0 when the loop is over
NextIdx(ls, f) ==
    IF f.idx + 1 <= Len(ls[REGISTRY[f.current_loc].parents]) THEN f.idx + 1 ELSE 0

\* slice.py:389-391: the while test succeeds and a node is popped
Pop ==
    /\ pc = "slicing"
    /\ Top.idx = 0
    /\ lists[Top.stack] # <<>>
    /\ LET st == lists[Top.stack]
           cur == st[Len(st)]
       IN  /\ lists' = [lists EXCEPT ![Top.stack] = SubSeq(st, 1, Len(st) - 1)]
           /\ frames' = SetTop([Top EXCEPT !.current_loc = cur,
                   !.idx = IF lists'[REGISTRY[cur].parents] = <<>> THEN 0 ELSE 1])
    /\ UNCHANGED <<tree, builds, REGISTRY_IDX, REGISTRY, nodes, pc, linenum, varname,
                   printed, error, calls, before, ref_node, ref_result>>

\* a visited guard that reads the annotation the node already carries
to_push_guarded(reg, m, relevant_m) ==
    IF relevant_m \subseteq reg[m].relevant_set THEN <<>> ELSE <<m>>

\* what slice.py:424 appends to the stack: the parent, whatever its annotation
to_push(reg, m, relevant_m) == <<m>>

\* slice.py:423-424, then the next turn of the for loop; `below` are the
\* frames under f
Push(reg, ls, below, f, m, relevant_m) ==
    /\ REGISTRY' = update_relevant_set(reg, m, relevant_m)
    /\ IF Len(ls[f.stack]) >= MaxStack
       THEN /\ Unwind("MemoryError")
            /\ lists' = GraphLists(ls)
       ELSE LET ls1 == [ls EXCEPT ![f.stack] = @ \o to_push(reg, m, relevant_m)]
            IN  /\ lists' = ls1
                /\ frames' = Append(below, [f EXCEPT !.idx = NextIdx(ls1, f),
                                                     !.relevant_m = {}])
                /\ UNCHANGED <<pc, printed, error>>

\* slice.py:393-424: one parent of current_loc is examined
Visit ==
    /\ pc = "slicing"
    /\ Top.idx > 0
    /\ LET f == Top
           current_loc == REGISTRY[f.current_loc]
           m == lists[current_loc.parents][f.idx]
           parent == REGISTRY[m]
           hit == current_loc.relevant_set \cap def_m(parent) # {}
           ref_m == set_of(collect_references(parent.ast_node))
           ctl == lineno(parent) \in current_loc.control_set
           relevant_m == (current_loc.relevant_set \ def_m(parent))
                             \cup (IF hit /\ ref_m.kind = "set" THEN ref_m.val ELSE {})
           lines == f.lines_in_slice \cup (IF hit \/ ctl THEN {lineno(parent)} ELSE {})
       IN  IF (hit \/ ctl) /\ ref_m.kind = "raise"
           THEN /\ Unwind(ref_m.exc)
                /\ lists' = GraphLists(lists)
                /\ UNCHANGED REGISTRY
           ELSE IF ctl
           THEN IF Len(frames) >= MaxDepth
                THEN /\ Unwind("RecursionError")
                     /\ lists' = GraphLists(lists)
                     /\ UNCHANGED REGISTRY
                ELSE LET e == enter(REGISTRY, lists, m, ref_m.val)
                     IN  /\ REGISTRY' = e.reg
                         /\ lists' = e.lists
                         /\ frames' = Append(SetTop([f EXCEPT !.lines_in_slice = lines,
                                                              !.relevant_m = relevant_m]),
                                             e.frame)
                         /\ UNCHANGED <<pc, printed, error>>
           ELSE Push(REGISTRY, lists, SubSeq(frames, 1, Len(frames) - 1),
                     [f EXCEPT !.lines_in_slice = lines], m, relevant_m)
    /\ UNCHANGED <<tree, builds, REGISTRY_IDX, nodes, linenum, varname, calls, before, ref_node, ref_result>>

\* slice.py:426 in a recursive call: the caller resumes at slice.py:421
Return ==
    /\ pc = "slicing"
    /\ Len(frames) > 1
    /\ Top.idx = 0
    /\ lists[Top.stack] = <<>>
    /\ LET f == frames[Len(frames) - 1]
           m == lists[REGISTRY[f.current_loc].parents][f.idx]
           lines == f.lines_in_slice \cup Top.lines_in_slice
       IN  Push(REGISTRY, SubSeq(lists, 1, Top.stack - 1), SubSeq(frames, 1, Len(frames) - 2),
                [f EXCEPT !.lines_in_slice = lines], m, f.relevant_m)
    /\ UNCHANGED <<tree, builds, REGISTRY_IDX, nodes, linenum, varname, calls, before, ref_node, ref_result>>

\* print_lines_in_slice
print_lines_in_slice(lines_in_slice) == sorted_list(lines_in_slice)

\* slice.py:426 in the outermost call, then slice.py:448
Finish ==
    /\ pc = "slicing"
    /\ Len(frames) = 1
    /\ Top.idx = 0
    /\ lists[Top.stack] = <<>>
    /\ printed' = Append(printed, print_lines_in_slice(Top.lines_in_slice))
    /\ lists' = GraphLists(lists)
    /\ frames' = <<>>
    /\ pc' = "returned"
    /\ UNCHANGED <<tree, builds, REGISTRY_IDX, REGISTRY, nodes, linenum, varname, error,
                   calls, before, ref_node, ref_result>>

Next == GenCfg \/ Slice \/ SliceAgain \/ Pop \/ Visit \/ Return \/ Finish

Spec == Init /\ [][Next]_vars

\* programs without a while statement: their CFG has no back-edge
NoWhile(t) == \A s \in Range(Preorder(t.body)) : s.kind # "While"

\* the script on loop-free programs; build_slice is sequential code: while it
\* has a next step it takes it
AcyclicInit == Init /\ NoWhile(tree)

BuildSliceStep == Pop \/ Visit \/ Return \/ Finish

\* one build and one slice call, as the script makes them
AcyclicNext == GenCfg \/ Slice \/ Pop \/ Visit \/ Return \/ Finish

AcyclicSpec == AcyclicInit /\ [][AcyclicNext]_vars /\ WF_vars(BuildSliceStep)

\* the builder on its own: a first build and builds that follow it
BuildNext == GenCfg \/ GenCfgAgain

BuildSpec == Init /\ [][BuildNext]_vars

(***************************************************************************)
(* collect_references called on its own, on every expression of depth at   *)
(* most MaxExprDepth and on the statements that hold one                   *)
(***************************************************************************)
MaxExprDepth == 1

RECURSIVE GenExprs(_)
GenExprs(d) ==
    IF d = 0 THEN {Constant} \cup {Name(x) : x \in GenVars}
    ELSE LET E == GenExprs(d - 1)
         IN  E \cup {BinOp(l, r) : l \in E, r \in E} \cup {Compare(l, r) : l \in E, r \in E}
               \cup {UnaryOp(o) : o \in E}

RefNodes ==
    LET E == GenExprs(MaxExprDepth)
    IN  E \cup {Assign(<<"a">>, e, 1) : e \in E} \cup {AnnAssign("_if", e, 1) : e \in E}
          \cup {Expr(e, 1) : e \in E} \cup {If(e, <<>>, <<>>, 1) : e \in E}

RefInit ==
    /\ tree = Module(<<>>)
    /\ builds = 0
    /\ REGISTRY_IDX = 0
    /\ REGISTRY = <<>>
    /\ lists = <<>>
    /\ nodes = <<>>
    /\ pc = "collect"
    /\ linenum = 0
    /\ varname = <<>>
    /\ frames = <<>>
    /\ printed = <<>>
    /\ error = ""
    /\ calls = 0
    /\ before = <<>>
    /\ ref_node \in RefNodes
    /\ ref_result = None

\* collect_references(ref_node)
CollectReferences ==
    /\ pc = "collect"
    /\ ref_result' = collect_references(ref_node)
    /\ pc' = "collected"
    /\ UNCHANGED <<tree, builds, REGISTRY_IDX, REGISTRY, lists, nodes, linenum, varname,
                   frames, printed, error, calls, before, ref_node>>

RefNext == CollectReferences

RefSpec == RefInit /\ [][RefNext]_vars

(***************************************************************************)
(* Vocabulary of the properties                                            *)
(***************************************************************************)
\* a slice call is over, one way or the other
Ended == pc \in {"returned", "raised"} /\ calls >= 1
\* the output of the latest completed slice call
LastPrinted == printed[Len(printed)]
\* the query of the running / last slice call
Query(t, line, var) == tree = t /\ linenum = line /\ varname = var

IsMulti(s) == s.kind = "Assign" /\ Len(s.targets) > 1
\* position of the first parallel assignment in walk order, 0 if there is none
FirstMulti(pre) ==
    IF \E i \in 1..Len(pre) : IsMulti(pre[i])
    THEN CHOOSE i \in 1..Len(pre) : IsMulti(pre[i]) /\ \A j \in 1..(i - 1) : ~IsMulti(pre[j])
    ELSE 0
\* the targets assigned anywhere in a body, and the lines that assign v
DefsOfBody(body) ==
    UNION {Range(s.targets) : s \in {x \in Range(Preorder(body)) : x.kind = "Assign"}}
DefLines(body, v) ==
    {s.lineno : s \in {x \in Range(Preorder(body)) : x.kind = "Assign" /\ v \in Range(x.targets)}}
IfElseStmts(body) == {s \in Range(Preorder(body)) : s.kind = "If" /\ s.orelse # <<>>}
NodeAtLine(line) == \E r \in DOMAIN REGISTRY : lineno(REGISTRY[r]) = line
\* the graph: ids, edges in both directions, statements
Graph ==
    [idx |-> REGISTRY_IDX,
     node |-> [r \in DOMAIN REGISTRY |->
                 [parents |-> lists[REGISTRY[r].parents],
                  children |-> REGISTRY[r].children,
                  ast_node |-> REGISTRY[r].ast_node]]]

RECURSIVE Unhandled(_)
\* collect_references reaches a node of a kind it has no branch for
Unhandled(n) ==
    CASE n.kind \in {"Name", "Constant"} -> FALSE
      [] n.kind = "BinOp" -> Unhandled(n.left) \/ Unhandled(n.right)
      [] n.kind = "Assign" -> Unhandled(n.value)
      [] n.kind = "AnnAssign" -> Unhandled(n.annotation)
      [] n.kind = "If" -> Unhandled(n.test)
      [] OTHER -> TRUE

(***************************************************************************)
(* Properties                                                              *)
(***************************************************************************)
\* C1: every slice call terminates by emptying its stack and returning: no
\* call ends because its to-visit stack or its recursion outgrew the machine,
\* and the query slice(2, i) on `i = 0; while i < 3: i = i + 1` returns.
C1_SliceTerminates ==
    /\ Ended => error \notin {"MemoryError", "RecursionError"}
    /\ (Ended /\ Query(ScenarioD, 2, <<"i">>)) => pc = "returned"

\* C2: on a straight-line program the slice of the variable assigned at the
\* seed line is the seed line and the lines that feed it: slice(4, d) of
\* scenario A is {1, 2, 3, 4} and slice(3, c) of scenario B is {1, 3}.
C2_StraightLineSlice ==
    /\ (Ended /\ Query(ScenarioA, 4, <<"d">>)) =>
           (pc = "returned" /\ LastPrinted = <<1, 2, 3, 4>>)
    /\ (Ended /\ Query(ScenarioB, 3, <<"c">>)) =>
           (pc = "returned" /\ LastPrinted = <<1, 3>>)

\* C3: slice(5, z) of scenario C returns {1, 2, 3, 4, 5}.
C3_BranchingSlice ==
    (Ended /\ Query(ScenarioC, 5, <<"z">>)) =>
        (pc = "returned" /\ LastPrinted = <<1, 2, 3, 4, 5>>)

\* C4: for an if/else whose branches share no variables, the slice of a
\* variable assigned only in the then branch holds no line of the else branch
\* (stated here for seeds that are not themselves in the else branch).
C4_NoElseBranchLines ==
    pc = "returned" =>
        \A s \in IfElseStmts(tree.body) :
            (/\ NamesOfBody(s.body) \cap NamesOfBody(s.orelse) = {}
             /\ linenum \notin LinesOfBody(s.orelse)
             /\ Len(varname) = 1
             /\ DefLines(tree.body, varname[1]) # {}
             /\ DefLines(tree.body, varname[1]) \subseteq LinesOfBody(s.body))
                => Range(LastPrinted) \cap LinesOfBody(s.orelse) = {}

\* C5: a slice call repeated with the same arguments on the same CFG returns
\* again and prints the same lines as the first call.
C5_SameResultTwice ==
    (calls >= 2 /\ pc # "slicing") =>
        /\ pc = "returned"
        /\ Len(printed) = calls
        /\ \A i \in 1..Len(printed) : printed[i] = printed[1]
\* the second call has run on annotated nodes and printed at least two lines
C5_Witness ==
    /\ calls = 2 /\ pc = "returned" /\ Len(printed) = 2 /\ Len(printed[2]) >= 2
    /\ \E r \in DOMAIN before : before[r].relevant_set # {}

\* C6: after slice returns every node's relevant_set and control_set are what
\* they were before the call.
C6_AnnotationsRestored ==
    pc = "returned" =>
        \A r \in DOMAIN REGISTRY :
            /\ REGISTRY[r].relevant_set = before[r].relevant_set
            /\ REGISTRY[r].control_set = before[r].control_set

\* C7: once the CFG is built no step changes the set of node ids, any node's
\* parents, children or statement.
C7_GraphUnchanged ==
    [][(pc \in {"built", "slicing", "returned"}) => (Graph' = Graph)]_vars
\* a slice has run to its end and annotated at least three nodes
C7_Witness ==
    /\ pc = "returned" /\ LastPrinted # <<>>
    /\ Cardinality({r \in DOMAIN REGISTRY : REGISTRY[r].relevant_set # {}}) >= 3

\* C8: a slice call for a line no node has ends in an exception: nothing is
\* printed, build_slice is not entered and no node is annotated.
C8_SeedNotFound ==
    (calls >= 1 /\ ~NodeAtLine(linenum)) =>
        /\ pc = "raised" /\ error = "TypeError"
        /\ printed = <<>> /\ frames = <<>> /\ REGISTRY = before
\* slice was called on a built CFG for a line without a node
C8_Witness ==
    calls = 1 /\ pc = "raised" /\ ~NodeAtLine(linenum) /\ REGISTRY_IDX >= 3

\* C9: building a program with a parallel assignment raises at the first such
\* assignment in walk order: gen_cfg returns no mapping, and the registry holds
\* the start node and one node for each statement walked before it, only.
C9_MultiTargetAborts ==
    LET pre == Preorder(tree.body)
        k == FirstMulti(pre)
    IN  (pc # "start" /\ k > 0) =>
            /\ pc = "raised" /\ calls = 0 /\ error = "TypeError" /\ nodes = <<>>
            /\ REGISTRY_IDX = k
            /\ DOMAIN REGISTRY = 0..(k - 1)
            /\ \A r \in 1..(k - 1) :
                  /\ lineno(REGISTRY[r]) = pre[r].lineno
                  /\ IF pre[r].kind \in {"If", "While"}
                     THEN REGISTRY[r].ast_node.annotation = pre[r].test
                     ELSE REGISTRY[r].ast_node = pre[r]
\* construction was aborted after at least one statement had been given a node
C9_Witness ==
    pc = "raised" /\ calls = 0 /\ REGISTRY_IDX >= 2 /\ FirstMulti(Preorder(tree.body)) >= 2

\* C10: collect_references raises on every node that holds a kind outside its
\* closed set, at the top level or as an operand.
C10_UnhandledKindRaises ==
    (pc = "collected" /\ Unhandled(ref_node)) => ref_result.kind = "raise"

\* the parents of node r, as a set of ids
ParentsOf(r) == Range(lists[REGISTRY[r].parents])
\* number of the node a build of `tree` ends with: all of them, or those made
\* before the first parallel assignment
BuiltCount ==
    LET pre == Preorder(tree.body)
    IN  IF FirstMulti(pre) > 0 THEN FirstMulti(pre) ELSE Len(pre) + 2

\* C11: after gen_cfg children is the exact inverse of parents: a node occurs
\* exactly once in the children of each of its parents, and every entry of a
\* node's children has that node among its parents.
C11_ChildrenInverse ==
    pc = "built" =>
        \A c \in DOMAIN REGISTRY, p \in DOMAIN REGISTRY :
            LET ch == REGISTRY[p].children
            IN  /\ p \in ParentsOf(c) => Cardinality({i \in 1..Len(ch) : ch[i] = c}) = 1
                /\ c \in Range(ch) => p \in ParentsOf(c)
\* a built graph with a back-edge: a node has a parent created after it
C11_Witness ==
    pc = "built" /\ \E c \in DOMAIN REGISTRY : \E p \in ParentsOf(c) : p > c

\* C12: ids are handed out in creation order as 0, 1, 2, ... and the registry
\* maps each id to the node that received it; every build starts from counter 0
\* and an empty registry, so what it returns are the nodes of its own program:
\* start, one node per statement in walk order, stop.
C12_IdsInCreationOrder ==
    (pc \in {"built", "raised"} /\ calls = 0) =>
        LET pre == Preorder(tree.body)
            n == BuiltCount
        IN  /\ REGISTRY_IDX = n
            /\ DOMAIN REGISTRY = 0..(n - 1)
            /\ \A r \in DOMAIN REGISTRY : REGISTRY[r].rid = r
            /\ pc = "built" => nodes = [i \in 1..n |-> i - 1]
            /\ REGISTRY[0].ast_node = Expr(Name("start"), 0)
            /\ pc = "built" => REGISTRY[n - 1].ast_node = Expr(Name("stop"), 0)
            /\ \A r \in 1..(n - 1) : r <= Len(pre) =>
                  /\ lineno(REGISTRY[r]) = pre[r].lineno
                  /\ IF pre[r].kind \in {"If", "While"}
                     THEN REGISTRY[r].ast_node.annotation = pre[r].test
                     ELSE REGISTRY[r].ast_node = pre[r]
\* a second build has returned the nodes of its program
C12_Witness ==
    builds = 2 /\ pc = "built" /\ REGISTRY_IDX >= 5

\* the name the caller asked about
SeedVariable == CHOOSE x \in NamesOfBody(tree.body) : Chars(x) = varname
\* a step that is a call of slice which reaches build_slice
SliceEntered == calls' = calls + 1 /\ pc' = "slicing"

\* C13: when several nodes have the seed line, a line of the program text,
\* slice seeds the search at the first of them in registry order.
C13_SeedIsFirstAtLine ==
    [][(SliceEntered /\ linenum' >= 1) =>
          LET hits == {i \in 1..Len(nodes) : lineno(REGISTRY[nodes[i]]) = linenum'}
          IN  frames'[1].start = nodes[CHOOSE i \in hits : \A j \in hits : i <= j]]_vars

\* C14: at the start of a slice query the seed node's relevant_set is the
\* one-element set holding the seed variable, whatever the length of its name;
\* the to-visit stack holds the seed node only and the result set is empty.
C14_SeedRelevantSet ==
    [][SliceEntered =>
          LET seed == frames'[1].start
          IN  /\ REGISTRY'[seed].relevant_set = {SeedVariable'}
              /\ lists'[frames'[1].stack] = <<seed>>
              /\ frames'[1].lines_in_slice = {}]_vars

\* Node r (1 <= r <= Len(pre)) is the node of statement pre[r] of the walk
\* order; the nodes of the statements nested in the statement of node i:
PreLen(body) == Len(Preorder(body))
ThenNodes(pre, i) == (i + 1)..(i + PreLen(pre[i].body))
ElseNodes(pre, i) ==
    (i + PreLen(pre[i].body) + 1)..(i + PreLen(pre[i].body) + PreLen(pre[i].orelse))
BodyNodes(pre, i) == (i + 1)..(i + PreLen(pre[i].body))
MinOf(S) == CHOOSE x \in S : \A y \in S : x <= y

\* C15: after construction every node created while processing the then or
\* the else branch of an if, nested nodes included, has the line of the if's
\* condition in its control_set, and no node outside the branches has it.
C15_BranchNodesMarked ==
    pc = "built" =>
        LET pre == Preorder(tree.body)
        IN  \A i \in 1..Len(pre) : pre[i].kind = "If" =>
                \A r \in DOMAIN REGISTRY :
                    (r \in ThenNodes(pre, i) \cup ElseNodes(pre, i))
                        <=> (pre[i].lineno \in REGISTRY[r].control_set)

\* C16: the first node of the then branch and the first node of the else
\* branch of an if each have the if's test node as a parent and no node of the
\* other branch.
C16_BranchesStartAtTest ==
    pc = "built" =>
        LET pre == Preorder(tree.body)
        IN  \A i \in 1..Len(pre) : pre[i].kind = "If" =>
                LET t == ThenNodes(pre, i)
                    e == ElseNodes(pre, i)
                IN  /\ t # {} => /\ i \in ParentsOf(MinOf(t))
                                 /\ ParentsOf(MinOf(t)) \cap e = {}
                    /\ e # {} => /\ i \in ParentsOf(MinOf(e))
                                 /\ ParentsOf(MinOf(e)) \cap t = {}

RECURSIVE LoopFollowers(_, _, _)
\* the pairs <<w, f>>: w the node of a while statement of `body`, f the node
\* made for what follows it; `first` is the node of the body's first statement
\* and `after` the node that follows its last one (0: none, a loop body ends)
LoopFollowers(body, first, after) ==
    IF body = <<>> THEN {}
    ELSE LET s == Head(body)
             next == first + PreLen(<<s>>)
             f == IF Tail(body) = <<>> THEN after ELSE next
         IN  (CASE s.kind = "While" ->
                      (IF f = 0 THEN {} ELSE {<<first, f>>})
                          \cup LoopFollowers(s.body, first + 1, 0)
                [] s.kind = "If" ->
                      LoopFollowers(s.body, first + 1, f)
                          \cup LoopFollowers(s.orelse, first + 1 + PreLen(s.body), f)
                [] OTHER -> {})
             \cup LoopFollowers(Tail(body), next, after)

\* C17: what follows a while statement (the next statement, or stop) has the
\* loop's test node as a parent and no node of the loop's body; and adding a
\* back-edge changes the parents of no node made before: the only parents a
\* node has that were created after it are, for a loop's test node, nodes of
\* its body.
C17_LoopExitIsTest ==
    pc = "built" =>
        LET pre == Preorder(tree.body)
        IN  /\ \A wf \in LoopFollowers(tree.body, 1, REGISTRY_IDX - 1) :
                  /\ wf[1] \in ParentsOf(wf[2])
                  /\ ParentsOf(wf[2]) \cap BodyNodes(pre, wf[1]) = {}
            /\ \A c \in DOMAIN REGISTRY : \A p \in ParentsOf(c) :
                  p > c => /\ c \in 1..Len(pre)
                           /\ pre[c].kind = "While"
                           /\ p \in BodyNodes(pre, c)

RECURSIVE AncestorsFrom(_, _)
\* the nodes reachable from S along parent edges, S included (k rounds at most)
AncestorsFrom(S, k) ==
    LET T == S \cup UNION {ParentsOf(r) : r \in S}
    IN  IF k = 0 \/ T = S THEN S ELSE AncestorsFrom(T, k - 1)
\* the lines of the proper ancestors of node r
AncestorLines(r) == {lineno(REGISTRY[a]) : a \in AncestorsFrom(ParentsOf(r), REGISTRY_IDX)}

\* C18: on the CFG of a program without a while loop every call of slice
\* comes to an end, its recursive calls of build_slice included, without
\* outgrowing stack or recursion depth; and every line build_slice collects,
\* in the outer call and in every recursive call, is the line of a proper
\* ancestor of that call's start node.
C18_AcyclicSliceEnds ==
    /\ [](error \notin {"MemoryError", "RecursionError"})
    /\ [](\A i \in 1..Len(frames) :
              frames[i].lines_in_slice \subseteq AncestorLines(frames[i].start))
    /\ [](pc = "returned" =>
              Range(LastPrinted) \subseteq AncestorLines(start_loc(REGISTRY, nodes, linenum).rid))
    /\ (pc = "slicing" ~> pc \in {"returned", "raised"})
\* a slice of a program with an if has returned with two lines or more
C18_Witness ==
    /\ pc = "returned" /\ Len(LastPrinted) >= 2
    /\ \E s \in Range(Preorder(tree.body)) : s.kind = "If"

====
